---- MODULE Spec2Model ----
(***************************************************************************)
(* Settlement engine of the Counting app (banker-style card game ledger). *)
(*                                                                         *)
(* State: the roster (players) and the round list (rounds), the only      *)
(* mutable state of the App component, plus the reset modal flag of the   *)
(* second screen.  Everything else (totals, debtsByRound, finalSettlement,*)
(* settlementByPerson) is a useMemo projection and is modelled as an      *)
(* operator computed the way the code computes it.                        *)
(*                                                                         *)
(* Identifiers: uid() returns a fresh string every call; it is modelled   *)
(* by two counters (nextPid, nextRid), so an id is never handed out twice.*)
(* Player ids are the integers 1, 2, 3, ... and the empty bankerId '' is  *)
(* NoBanker.  Real uids are not integer-like strings, so a JS object      *)
(* keyed by them iterates in insertion order; the model keeps that order  *)
(* by representing such objects as sequences in insertion order.          *)
(*                                                                         *)
(* Numbers: a JS number is either finite or non-finite (NaN, +Infinity,   *)
(* -Infinity).  The code only ever tests non-finite values with           *)
(* Number.isFinite and adds them, and a sum with a non-finite operand is  *)
(* non-finite, so the three are modelled by one value NonFinite.  Finite  *)
(* amounts are integers (VND has no minor unit); IEEE rounding and        *)
(* overflow of finite sums are not modelled.                              *)
(*                                                                         *)
(* The two App components of the repository share the handlers and the    *)
(* projections line for line; they differ in resetGame (ResetGameDirect   *)
(* for the first, ResetGame and the Modal for the second) and in the +/-  *)
(* buttons of the second.  moneyStep, the theme, the orientation and the  *)
(* celebration state enter no projection and are left out; a value edit   *)
(* carries any amount instead.                                             *)
(*                                                                         *)
(* Three specifications: Spec runs the handlers from a fresh start,       *)
(* SpecStored runs them from stored data, and SpecSettle runs the         *)
(* finalSettlement memo by itself, one loop iteration per step, on every  *)
(* Balance mapping of a bounded size.                                      *)
(***************************************************************************)
EXTENDS Integers, Sequences, FiniteSets, TLC

VARIABLES players, rounds, rendered, nextPid, nextRid, isResetModalOpen, last,
          stepsLeft,
          balances, debtors, creditors, debtorIndex, creditorIndex,
          transactions, pc

\* The state of the App component and of a run over it.
\* rounds is the round list as the queued setRounds updaters have left it;
\* rendered is the round list of the last render, which is what the `rounds`
\* in a handler's closure reads.
appVars == <<players, rounds, rendered, nextPid, nextRid, isResetModalOpen, last,
             stepsLeft>>

\* The locals of the finalSettlement memo, for the specification that runs
\* its loop one iteration at a time (SpecSettle below); pc is its position.
settleVars == <<balances, debtors, creditors, debtorIndex, creditorIndex,
                transactions, pc>>

vars == <<appVars, settleVars>>

\* ------------------------------------------------------------------ bounds

\* Length of the explored runs: the number of handler calls after a fresh
\* start (MaxSteps) and after a start from stored data (MaxStoredSteps).
MaxSteps == 5

MaxStoredSteps == 2

\* The number of value edits in a run whose edits need not be followed by a
\* re-render.
MaxBatchedSteps == 3

\* The Balance mappings the minimizer is run on by itself: up to
\* SettlePlayers keys, every amount between -MaxOwed and MaxOwed.
SettlePlayers == 5

MaxOwed == 3

\* The Balance mappings with overflowed sums have up to OverflowPlayers keys.
OverflowPlayers == 3

\* ------------------------------------------------------------- constants

\* The empty bankerId '' (falsy in `if (!round.bankerId) return`).
NoBanker == 0

\* DEFAULT_PLAYERS: Array.from({ length: 3 }, ...).
DefaultPlayerCount == 3

\* --------------------------------------------------------------- numbers

Num(n) == [k |-> "num", n |-> n]

NonFinite == [k |-> "nan", n |-> 0]

\* The `null` an emptied InputNumber hands to onChange.
Null == [k |-> "null", n |-> 0]

\* Number.isFinite(v)
IsFinite(v) == v.k = "num"

\* a + b on JS numbers
Add(a, b) == IF IsFinite(a) /\ IsFinite(b) THEN Num(a.n + b.n) ELSE NonFinite

\* -a on JS numbers
Neg(a) == IF IsFinite(a) THEN Num(0 - a.n) ELSE NonFinite

\* value ?? 0
OrZero(v) == IF v = Null THEN Num(0) ELSE v

\* round.values[pid] ?? 0 : a missing key reads as undefined
ValueOrZero(values, pid) == IF pid \in DOMAIN values THEN OrZero(values[pid]) ELSE Num(0)

\* The amounts a value edit can carry: null, finite amounts of either sign,
\* and a non-finite number (the +/- buttons add moneyStep with no upper
\* limit, and the handler's parameter type is number | null).
EditValues == {Null, Num(-20), Num(50), NonFinite}

\* Mutant of Min: a payment settles one unit at a time.
Min_Unit(a, b) == 1

Min(a, b) == IF a <= b THEN a ELSE b

Abs(n) == IF n < 0 THEN 0 - n ELSE n

\* A Balance is a sum of finite entries (acc[pid] += Number.isFinite(v) ? v
\* : 0), and a sum of doubles that leaves their range is +Infinity or
\* -Infinity.  Infinity stands for +Infinity and 0 - Infinity for -Infinity:
\* a number above every finite amount the model reaches, so that the
\* comparisons, Math.min, the negation and the sorts treat it as JS does.
Infinity == 1000000

\* NaN, where the minimizer can meet it: the remainder of Infinity - Infinity.
\* It is below every other number here, so Math.min with it gives it, and
\* `NaN > 0` and `NaN === 0` are false.
NotANumber == 0 - Infinity - 1

\* a - b on the remainders of the minimizer (debtor.amount -= amount)
Minus(a, b) ==
  IF a = Infinity /\ b = Infinity THEN NotANumber
  ELSE IF a = Infinity THEN Infinity
  ELSE a - b

\* ------------------------------------------------------------ projections

Ids(ps) == {ps[i].id : i \in 1..Len(ps)}

\* Mutant of SumParticipants: the sum runs over the entries of round.values
\* instead of over the roster.
SumParticipants_AllEntries(ps, round) ==
  LET keys == DOMAIN round.values \ {round.bankerId}
      sum[ks \in SUBSET keys] ==
        IF ks = {} THEN Num(0)
        ELSE LET k == CHOOSE x \in ks : TRUE
             IN Add(sum[ks \ {k}], OrZero(round.values[k]))
  IN sum[keys]

\* players.filter((p) => p.id !== round.bankerId)
\*        .reduce((s, p) => s + (round.values[p.id] ?? 0), 0)
SumParticipants(ps, round) ==
  LET s[i \in 0..Len(ps)] ==
        IF i = 0 THEN Num(0)
        ELSE IF ps[i].id # round.bankerId
             THEN Add(s[i - 1], ValueOrZero(round.values, ps[i].id))
             ELSE s[i - 1]
  IN s[Len(ps)]

\* { ...round.values, [round.bankerId]: -sumParticipants }
FinalValues(ps, round) ==
  [pid \in DOMAIN round.values \cup {round.bankerId} |->
     IF pid = round.bankerId THEN Neg(SumParticipants(ps, round))
     ELSE round.values[pid]]

\* Mutant of RoundShare: the `if (!round.bankerId) return` line is missing.
RoundShare_NoBankerGuard(ps, round, pid) ==
  LET fv == FinalValues(ps, round)
  IN IF pid \in DOMAIN fv /\ IsFinite(fv[pid]) THEN fv[pid].n ELSE 0

\* What one round adds to acc[pid]:
\*   if (!round.bankerId) return
\*   for (const [pid, v] of Object.entries(finalValues))
\*     if (acc[pid] !== undefined) acc[pid] += Number.isFinite(v) ? v : 0
RoundShare(ps, round, pid) ==
  IF round.bankerId = NoBanker THEN 0
  ELSE LET fv == FinalValues(ps, round)
       IN IF pid \in DOMAIN fv /\ IsFinite(fv[pid]) THEN fv[pid].n ELSE 0

\* Mutant of Totals: the first round of the list is skipped.
Totals_SkipsFirstRound(ps, rs) ==
  LET acc[j \in 0..Len(rs)] ==
        IF j <= 1 THEN [pid \in Ids(ps) |-> 0]
        ELSE [pid \in Ids(ps) |-> acc[j - 1][pid] + RoundShare(ps, rs[j], pid)]
  IN [i \in 1..Len(ps) |-> [id |-> ps[i].id, amount |-> acc[Len(rs)][ps[i].id]]]

\* totals: the Balance mapping, as the sequence of its entries in key order
\* (acc is filled in roster order by players.forEach((p) => (acc[p.id] = 0))).
Totals(ps, rs) ==
  LET acc[j \in 0..Len(rs)] ==
        IF j = 0 THEN [pid \in Ids(ps) |-> 0]
        ELSE [pid \in Ids(ps) |-> acc[j - 1][pid] + RoundShare(ps, rs[j], pid)]
  IN [i \in 1..Len(ps) |-> [id |-> ps[i].id, amount |-> acc[Len(rs)][ps[i].id]]]

\* totals[pid] ?? 0
Balance(tot, pid) ==
  IF \E i \in 1..Len(tot) : tot[i].id = pid
  THEN (CHOOSE e \in {tot[i] : i \in 1..Len(tot)} : e.id = pid).amount
  ELSE 0

\* Mutant of RoundDebts: the sign of the value is not looked at, the banker
\* always pays.
RoundDebts_BankerAlwaysPays(ps, round, idx) ==
  LET items[i \in 0..Len(ps)] ==
        IF i = 0 THEN <<>>
        ELSE LET p == ps[i].id
                 v == ValueOrZero(round.values, p)
             IN IF p = round.bankerId \/ ~IsFinite(v) \/ v.n = 0 THEN items[i - 1]
                ELSE Append(items[i - 1],
                            [roundIndex |-> idx, bankerId |-> round.bankerId,
                             fromId |-> round.bankerId, toId |-> p, amount |-> Abs(v.n)])
  IN items[Len(ps)]

\* One round's DebtItems, in roster order:
\*   for (const p of players) {
\*     if (p.id === bankerId) continue
\*     const v = round.values[p.id] ?? 0
\*     if (!Number.isFinite(v) || v === 0) continue
\*     v > 0 ? banker pays player : player pays banker (amount Math.abs(v))
RoundDebts(ps, round, idx) ==
  LET items[i \in 0..Len(ps)] ==
        IF i = 0 THEN <<>>
        ELSE LET p == ps[i].id
                 v == ValueOrZero(round.values, p)
             IN IF p = round.bankerId \/ ~IsFinite(v) \/ v.n = 0 THEN items[i - 1]
                ELSE IF v.n > 0
                     THEN Append(items[i - 1],
                                 [roundIndex |-> idx, bankerId |-> round.bankerId,
                                  fromId |-> round.bankerId, toId |-> p, amount |-> v.n])
                     ELSE Append(items[i - 1],
                                 [roundIndex |-> idx, bankerId |-> round.bankerId,
                                  fromId |-> p, toId |-> round.bankerId, amount |-> Abs(v.n)])
  IN items[Len(ps)]

\* Mutant of DebtsByRound: roundIndex counts the rounds with a banker only.
DebtsByRound_CountsBankedOnly(ps, rs) ==
  LET all[j \in 0..Len(rs)] ==
        IF j = 0 THEN <<>>
        ELSE IF rs[j].bankerId = NoBanker THEN all[j - 1]
             ELSE all[j - 1] \o
                  RoundDebts(ps, rs[j],
                             Cardinality({k \in 1..j : rs[k].bankerId # NoBanker}))
  IN all[Len(rs)]

\* debtsByRound: rounds.forEach((round, idx) => { if (!bankerId) return; ... })
DebtsByRound(ps, rs) ==
  LET all[j \in 0..Len(rs)] ==
        IF j = 0 THEN <<>>
        ELSE IF rs[j].bankerId = NoBanker THEN all[j - 1]
             ELSE all[j - 1] \o RoundDebts(ps, rs[j], j)
  IN all[Len(rs)]

\* Array.prototype.sort is stable: equal amounts keep their order.
\* .sort((a, b) => a.amount - b.amount)
SortAscending(seq) ==
  LET sorted[i \in 0..Len(seq)] ==
        IF i = 0 THEN <<>>
        ELSE LET prev == sorted[i - 1]
                 x == seq[i]
                 k == Cardinality({j \in 1..Len(prev) : prev[j].amount <= x.amount})
             IN SubSeq(prev, 1, k) \o <<x>> \o SubSeq(prev, k + 1, Len(prev))
  IN sorted[Len(seq)]

\* Mutant of SortDescending: the list is returned in the order generated.
SortDescending_KeepsOrder(seq) == seq

\* .sort((a, b) => b.amount - a.amount)
SortDescending(seq) ==
  LET sorted[i \in 0..Len(seq)] ==
        IF i = 0 THEN <<>>
        ELSE LET prev == sorted[i - 1]
                 x == seq[i]
                 k == Cardinality({j \in 1..Len(prev) : prev[j].amount >= x.amount})
             IN SubSeq(prev, 1, k) \o <<x>> \o SubSeq(prev, k + 1, Len(prev))
  IN sorted[Len(seq)]

\* Mutant of DebtorEntries: every non-zero balance counts as a debt.
DebtorEntries_AnySign(tot) ==
  LET nonzero == SelectSeq(tot, LAMBDA e : e.amount # 0)
  IN [i \in 1..Len(nonzero) |-> [id |-> nonzero[i].id, amount |-> Abs(nonzero[i].amount)]]

\* Mutant of DebtorEntries: the filter lets a zero balance through and the
\* owed amount is one too high.
DebtorEntries_ZeroOwesOne(tot) ==
  LET neg == SelectSeq(tot, LAMBDA e : e.amount <= 0)
  IN [i \in 1..Len(neg) |-> [id |-> neg[i].id, amount |-> 1 - neg[i].amount]]

\* Object.entries(balances).filter(([, amount]) => amount < 0)
\*   .map(([id, amount]) => ({ id, amount: -amount }))
DebtorEntries(tot) ==
  LET neg == SelectSeq(tot, LAMBDA e : e.amount < 0)
  IN [i \in 1..Len(neg) |-> [id |-> neg[i].id, amount |-> 0 - neg[i].amount]]

\* Object.entries(balances).filter(([, amount]) => amount > 0)
CreditorEntries(tot) == SelectSeq(tot, LAMBDA e : e.amount > 0)

\* Mutant of Debtors: the debtors are left in key order, unsorted.
Debtors_Unsorted(tot) == DebtorEntries(tot)

Debtors(tot) == SortAscending(DebtorEntries(tot))

\* Mutant of Creditors: the creditors are sorted in descending order.
Creditors_Descending(tot) == SortDescending(CreditorEntries(tot))

Creditors(tot) == SortAscending(CreditorEntries(tot))

\* The pairing loop:
\*   while (debtorIndex < debtors.length && creditorIndex < creditors.length) {
\*     const amount = Math.min(debtor.amount, creditor.amount)
\*     if (amount > 0) { push; debtor.amount -= amount; creditor.amount -= amount }
\*     if (debtor.amount === 0) debtorIndex++
\*     if (creditor.amount === 0) creditorIndex++
\*   }
\* Indices are 1-based here; ds, cs, di, ci, txs are debtors, creditors,
\* debtorIndex, creditorIndex, transactions.
RECURSIVE SettleLoop(_, _, _, _, _)
SettleLoop(ds, cs, di, ci, txs) ==
  IF ~(di <= Len(ds) /\ ci <= Len(cs))
  THEN txs
  ELSE LET debtor == ds[di]
           creditor == cs[ci]
           amount == Min(debtor.amount, creditor.amount)
           tx == IF amount > 0
                 THEN Append(txs, [fromId |-> debtor.id, toId |-> creditor.id, amount |-> amount])
                 ELSE txs
           d2 == IF amount > 0 THEN [ds EXCEPT ![di].amount = Minus(@, amount)] ELSE ds
           c2 == IF amount > 0 THEN [cs EXCEPT ![ci].amount = Minus(@, amount)] ELSE cs
       IN SettleLoop(d2, c2,
                     IF d2[di].amount = 0 THEN di + 1 ELSE di,
                     IF c2[ci].amount = 0 THEN ci + 1 ELSE ci,
                     tx)

\* The transactions in the order the loop generates them.
Pairing(tot) == SettleLoop(Debtors(tot), Creditors(tot), 1, 1, <<>>)

\* finalSettlement: return transactions.sort((a, b) => b.amount - a.amount)
FinalSettlement(tot) == SortDescending(Pairing(tot))

\* finalSettlement.filter((t) => t.fromId === p.id).reduce((s, t) => s + t.amount, 0)
Pay(txs, pid) ==
  LET s[i \in 0..Len(txs)] ==
        IF i = 0 THEN 0
        ELSE IF txs[i].fromId = pid THEN s[i - 1] + txs[i].amount ELSE s[i - 1]
  IN s[Len(txs)]

\* finalSettlement.filter((t) => t.toId === p.id).reduce((s, t) => s + t.amount, 0)
Receive(txs, pid) ==
  LET s[i \in 0..Len(txs)] ==
        IF i = 0 THEN 0
        ELSE IF txs[i].toId = pid THEN s[i - 1] + txs[i].amount ELSE s[i - 1]
  IN s[Len(txs)]

\* One entry of settlementByPerson.
PersonSettlement(txs, pid) ==
  [personId |-> pid, pay |-> Pay(txs, pid), receive |-> Receive(txs, pid),
   net |-> Receive(txs, pid) - Pay(txs, pid)]

\* .sort((a, b) => Math.abs(b.net) - Math.abs(a.net))
SortByAbsNet(seq) ==
  LET sorted[i \in 0..Len(seq)] ==
        IF i = 0 THEN <<>>
        ELSE LET prev == sorted[i - 1]
                 x == seq[i]
                 k == Cardinality({j \in 1..Len(prev) : Abs(prev[j].net) >= Abs(x.net)})
             IN SubSeq(prev, 1, k) \o <<x>> \o SubSeq(prev, k + 1, Len(prev))
  IN sorted[Len(seq)]

\* settlementByPerson
SettlementByPerson(ps, txs) ==
  SortByAbsNet([i \in 1..Len(ps) |-> PersonSettlement(txs, ps[i].id)])

\* Mutant of SettlementOf: while the history is a single round, the list is
\* that round's DebtItems instead of the pairing of the Balances.
SettlementOf_DebtsOfSingleRound(ps, rs) ==
  IF Len(rs) = 1
  THEN LET debts == DebtsByRound(ps, rs)
       IN SortDescending([i \in 1..Len(debts) |->
                            [fromId |-> debts[i].fromId, toId |-> debts[i].toId,
                             amount |-> debts[i].amount]])
  ELSE FinalSettlement(Totals(ps, rs))

\* The transaction list of a roster and a round history: the finalSettlement
\* memo over the totals memo.
SettlementOf(ps, rs) == FinalSettlement(Totals(ps, rs))

\* The projections of the current state.
totals == Totals(players, rounds)

debtsByRound == DebtsByRound(players, rounds)

finalSettlement == FinalSettlement(totals)

settlementByPerson == SettlementByPerson(players, finalSettlement)

\* ------------------------------------------------------------------ export

\* The player columns of one row of exportExcel's historyData:
\*   const row = { 'Van': i + 1, 'Nguoi lam cai': bankerName }
\*   players.forEach((p) => { row[p.name] = finalValues[p.id] ?? 0 })
\* The row is an object keyed by name: a later player with the same name
\* overwrites the earlier one's column.
HistoryRow(ps, round) ==
  LET finalValues == FinalValues(ps, round)
      columns == {ps[i].name : i \in 1..Len(ps)}
      writer(name) == CHOOSE i \in 1..Len(ps) :
                        /\ ps[i].name = name
                        /\ \A k \in (i + 1)..Len(ps) : ps[k].name # name
  IN [name \in columns |-> ValueOrZero(finalValues, ps[writer(name)].id)]

\* rounds.map((r, i) => row)
HistoryData(ps, rs) == [j \in 1..Len(rs) |-> HistoryRow(ps, rs[j])]

\* ---------------------------------------------------------------- handlers

\* {} : a values object with no key
EmptyValues == <<>>

\* const nextValues = { ...r.values }; delete nextValues[id]
DeleteKey(values, id) == [k \in DOMAIN values \ {id} |-> values[k]]

\* { ...round.values, [playerId]: value ?? 0 }
SetKey(values, pid, v) ==
  [k \in DOMAIN values \cup {pid} |-> IF k = pid THEN v ELSE values[k]]

RoundIds == {rounds[j].id : j \in 1..Len(rounds)}

\* rounds.find((r) => r.id === roundId)
FindRound(rs, rid) == rs[CHOOSE j \in 1..Len(rs) : rs[j].id = rid]

\* What the history variable `last` records: the handler that ran and the
\* ids it was called with (0 where it takes none).
Called(op, pid, rid) == [op |-> op, pid |-> pid, rid |-> rid]

\* A handler call is one step of a run of bounded length.  The page's
\* handlers are reachable only while the reset Modal is closed (an open antd
\* Modal covers the page).
Step == stepsLeft > 0 /\ stepsLeft' = stepsLeft - 1 /\ UNCHANGED settleVars

\* In a run of the App the memo is the operator FinalSettlement, computed
\* within the handler's step; its locals are not state.
SettleIdle ==
  /\ balances = <<>>
  /\ debtors = <<>>
  /\ creditors = <<>>
  /\ debtorIndex = 1
  /\ creditorIndex = 1
  /\ transactions = <<>>
  /\ pc = "idle"

PageIdle == ~isResetModalOpen

\* React re-renders once the handler of an event has returned: the closures
\* of the next event read the new round list.
Rerender == rendered' = rounds'

\* State of a freshly mounted App with empty storage.
Init ==
  /\ players = [i \in 1..DefaultPlayerCount |-> [id |-> i, name |-> i]]
  /\ rounds = <<>>
  /\ rendered = <<>>
  /\ nextPid = DefaultPlayerCount + 1
  /\ nextRid = 1
  /\ isResetModalOpen = FALSE
  /\ last = Called("init", 0, 0)
  /\ stepsLeft = MaxSteps
  /\ SettleIdle

\* Mutant of AddPlayer: the id is made from the roster's length, as the name
\* is, and not by uid().
AddPlayer_IdFromLength ==
  /\ PageIdle /\ Step
  /\ players' = Append(players, [id |-> Len(players) + 1, name |-> Len(players) + 1])
  /\ nextPid' = nextPid + 1
  /\ last' = Called("addPlayer", Len(players) + 1, 0)
  /\ UNCHANGED <<rounds, nextRid, isResetModalOpen>>
  /\ Rerender

\* addPlayer: [...prev, { id: uid(), name: `Nguoi choi ${prev.length + 1}` }]
\* The name is kept as the number in it.
AddPlayer ==
  /\ PageIdle /\ Step
  /\ players' = Append(players, [id |-> nextPid, name |-> Len(players) + 1])
  /\ nextPid' = nextPid + 1
  /\ last' = Called("addPlayer", nextPid, 0)
  /\ UNCHANGED <<rounds, nextRid, isResetModalOpen>>
  /\ Rerender

\* Mutant of RoundsWithoutPlayer: the removed player stays the banker of the
\* rounds they were banker of.
RoundsWithoutPlayer_KeepsBanker(rs, id) ==
  [j \in 1..Len(rs) |-> [rs[j] EXCEPT !.values = DeleteKey(@, id)]]

\* Mutant of RoundsWithoutPlayer: a round that held an entry of the removed
\* player loses all its entries.
RoundsWithoutPlayer_DropsValues(rs, id) ==
  [j \in 1..Len(rs) |->
     [rs[j] EXCEPT !.values = IF id \in DOMAIN @ THEN EmptyValues ELSE @,
                   !.bankerId = IF @ = id THEN NoBanker ELSE @]]

\* The round list after removePlayer(id).
RoundsWithoutPlayer(rs, id) ==
  [j \in 1..Len(rs) |->
     [rs[j] EXCEPT !.values = DeleteKey(@, id),
                   !.bankerId = IF @ = id THEN NoBanker ELSE @]]

\* Mutant of RemovePlayer: the round list is left as it is.
RemovePlayer_KeepsRounds(id) ==
  /\ PageIdle /\ Step
  /\ players' = SelectSeq(players, LAMBDA p : p.id # id)
  /\ last' = Called("removePlayer", id, 0)
  /\ UNCHANGED <<rounds, nextPid, nextRid, isResetModalOpen>>
  /\ Rerender

\* removePlayer(id), from the Popconfirm of a roster row
RemovePlayer(id) ==
  /\ PageIdle /\ Step
  /\ players' = SelectSeq(players, LAMBDA p : p.id # id)
  /\ rounds' = RoundsWithoutPlayer(rounds, id)
  /\ last' = Called("removePlayer", id, 0)
  /\ UNCHANGED <<nextPid, nextRid, isResetModalOpen>>
  /\ Rerender

\* Mutant of AddRound: the new round never takes over a banker.
AddRound_NoInheritedBanker ==
  /\ PageIdle /\ Step
  /\ rounds' = Append(rounds, [id |-> nextRid, bankerId |-> NoBanker,
                               values |-> EmptyValues])
  /\ nextRid' = nextRid + 1
  /\ last' = Called("addRound", 0, nextRid)
  /\ UNCHANGED <<players, nextPid, isResetModalOpen>>
  /\ Rerender

\* addRound
AddRound ==
  /\ PageIdle /\ Step
  /\ LET lastBankerId == IF Len(rounds) > 0 THEN rounds[Len(rounds)].bankerId ELSE NoBanker
     IN rounds' = Append(rounds, [id |-> nextRid, bankerId |-> lastBankerId,
                                  values |-> EmptyValues])
  /\ nextRid' = nextRid + 1
  /\ last' = Called("addRound", 0, nextRid)
  /\ UNCHANGED <<players, nextPid, isResetModalOpen>>
  /\ Rerender

\* updateRound(roundId, newRoundData):
\*   prev.map((r) => (r.id === roundId ? { ...r, ...newRoundData } : r))
\* for the two shapes of newRoundData the callers pass.
UpdateRoundBanker(rs, rid, val) ==
  [j \in 1..Len(rs) |-> IF rs[j].id = rid THEN [rs[j] EXCEPT !.bankerId = val] ELSE rs[j]]

UpdateRoundValues(rs, rid, values) ==
  [j \in 1..Len(rs) |-> IF rs[j].id = rid THEN [rs[j] EXCEPT !.values = values] ELSE rs[j]]

\* The banker Select's onChange: updateRound(record.id, { bankerId: val }),
\* val one of the options players.map((p) => ({ value: p.id, ... })).
SelectBanker(rid, val) ==
  /\ PageIdle /\ Step
  /\ rounds' = UpdateRoundBanker(rounds, rid, val)
  /\ last' = Called("selectBanker", val, rid)
  /\ UNCHANGED <<players, nextPid, nextRid, isResetModalOpen>>
  /\ Rerender

\* Mutant of AfterUpdateRoundValue: the `playerId === round.bankerId` test is
\* missing.
AfterUpdateRoundValue_NoBankerGuard(rs, rid, pid, value) ==
  IF ~(\E j \in 1..Len(rs) : rs[j].id = rid) THEN rs
  ELSE UpdateRoundValues(rs, rid, SetKey(FindRound(rs, rid).values, pid, OrZero(value)))

\* Mutant of AfterUpdateRoundValue: the round's other entries are not
\* spread into the new values object.
AfterUpdateRoundValue_DropsOtherEntries(rs, rid, pid, value) ==
  IF ~(\E j \in 1..Len(rs) : rs[j].id = rid) THEN rs
  ELSE LET round == FindRound(rs, rid)
       IN IF pid = round.bankerId THEN rs
          ELSE UpdateRoundValues(rs, rid, SetKey(EmptyValues, pid, OrZero(value)))

\* The round list after updateRoundValue(roundId, playerId, value).
AfterUpdateRoundValue(rs, rid, pid, value) ==
  IF ~(\E j \in 1..Len(rs) : rs[j].id = rid) THEN rs
  ELSE LET round == FindRound(rs, rid)
       IN IF pid = round.bankerId THEN rs
          ELSE UpdateRoundValues(rs, rid, SetKey(round.values, pid, OrZero(value)))

\* updateRoundValue(roundId, playerId, value), from a player cell of a row
UpdateRoundValue(rid, pid, value) ==
  /\ PageIdle /\ Step
  /\ rounds' = AfterUpdateRoundValue(rounds, rid, pid, value)
  /\ last' = Called("updateRoundValue", pid, rid)
  /\ UNCHANGED <<players, nextPid, nextRid, isResetModalOpen>>
  /\ Rerender

\* Mutant of RemoveRound: the rounds after the removed one go with it.
RemoveRound_DropsTail(rid) ==
  /\ PageIdle /\ Step
  /\ rounds' = SubSeq(rounds, 1, (CHOOSE j \in 1..Len(rounds) : rounds[j].id = rid) - 1)
  /\ last' = Called("removeRound", 0, rid)
  /\ UNCHANGED <<players, nextPid, nextRid, isResetModalOpen>>
  /\ Rerender

\* removeRound(roundId)
RemoveRound(rid) ==
  /\ PageIdle /\ Step
  /\ rounds' = SelectSeq(rounds, LAMBDA r : r.id # rid)
  /\ last' = Called("removeRound", 0, rid)
  /\ UNCHANGED <<players, nextPid, nextRid, isResetModalOpen>>
  /\ Rerender

\* First screen: resetGame empties the round list at once.
ResetGameDirect ==
  /\ PageIdle /\ Step
  /\ rounds' = <<>>
  /\ last' = Called("resetGameDirect", 0, 0)
  /\ UNCHANGED <<players, nextPid, nextRid, isResetModalOpen>>
  /\ Rerender

\* Mutant of ResetGame: the rounds are emptied at once, without the Modal.
ResetGame_WithoutConfirmation ==
  /\ PageIdle /\ Step
  /\ rounds' = <<>>
  /\ last' = Called("resetGame", 0, 0)
  /\ UNCHANGED <<players, nextPid, nextRid, isResetModalOpen>>
  /\ Rerender

\* Second screen: resetGame resets at once when there is no round and opens
\* the Modal otherwise.
ResetGame ==
  /\ PageIdle /\ Step
  /\ IF Len(rounds) = 0
     THEN rounds' = <<>> /\ UNCHANGED isResetModalOpen
     ELSE isResetModalOpen' = TRUE /\ UNCHANGED rounds
  /\ last' = Called("resetGame", 0, 0)
  /\ UNCHANGED <<players, nextPid, nextRid>>
  /\ Rerender

\* Modal onCancel
ModalCancel ==
  /\ isResetModalOpen /\ Step
  /\ isResetModalOpen' = FALSE
  /\ last' = Called("modalCancel", 0, 0)
  /\ UNCHANGED <<players, rounds, nextPid, nextRid>>
  /\ Rerender

\* Modal onOk: close, then resetGameNow()
ModalOk ==
  /\ isResetModalOpen /\ Step
  /\ isResetModalOpen' = FALSE
  /\ rounds' = <<>>
  /\ last' = Called("modalOk", 0, 0)
  /\ UNCHANGED <<players, nextPid, nextRid>>
  /\ Rerender

Next ==
  \/ AddPlayer
  \/ \E id \in Ids(players) : RemovePlayer(id)
  \/ AddRound
  \/ \E rid \in RoundIds, val \in Ids(players) : SelectBanker(rid, val)
  \/ \E rid \in RoundIds, pid \in Ids(players), value \in EditValues :
       UpdateRoundValue(rid, pid, value)
  \/ \E rid \in RoundIds : RemoveRound(rid)
  \/ ResetGameDirect
  \/ ResetGame
  \/ ModalCancel
  \/ ModalOk

Spec == Init /\ [][Next]_vars

\* The numbers a stored round can hold for a key.
StoredValues == {Num(-20), Num(50), NonFinite}

\* State of an App mounted over stored data (useStickyState reads the roster
\* and the round list back from 'poker-app-players' and 'poker-app-rounds').
\* The two keys are written separately, so the stored round may name ids the
\* stored roster does not hold: here the roster is players 1 and 2, id 3 was
\* handed out earlier and is on no roster, and the one stored round has any
\* banker among '', 1, 2, 3 and any values over any of the keys 1, 2, 3.
InitStored ==
  /\ players = <<[id |-> 1, name |-> 1], [id |-> 2, name |-> 2]>>
  /\ nextPid = 4
  /\ nextRid = 2
  /\ \E b \in {NoBanker, 1, 2, 3}, keys \in SUBSET {1, 2, 3} :
       \E values \in [keys -> StoredValues] :
         rounds = <<[id |-> 1, bankerId |-> b, values |-> values]>>
  /\ rendered = rounds
  /\ isResetModalOpen = FALSE
  /\ last = Called("init", 0, 0)
  /\ stepsLeft = MaxStoredSteps
  /\ SettleIdle

SpecStored == InitStored /\ [][Next]_vars

\* ------------------------------------- value edits between two renders

\* updateRoundValue reads the round from the `rounds` of its closure (snap)
\* and hands updateRound a values object built from it; the updater maps the
\* latest list (prev):
\*   const round = rounds.find((r) => r.id === roundId)
\*   if (!round || playerId === round.bankerId) return
\*   setRounds((prev) => prev.map((r) => r.id === roundId
\*     ? { ...r, values: { ...round.values, [playerId]: value ?? 0 } } : r))
AfterUpdateRoundValueFrom(prev, snap, rid, pid, value) ==
  IF ~(\E j \in 1..Len(snap) : snap[j].id = rid) THEN prev
  ELSE LET round == FindRound(snap, rid)
       IN IF pid = round.bankerId THEN prev
          ELSE UpdateRoundValues(prev, rid, SetKey(round.values, pid, OrZero(value)))

\* A round with banker 1 and no entry yet, as addRound and the banker Select
\* leave it, of the three default players.
InitBatched ==
  /\ players = [i \in 1..DefaultPlayerCount |-> [id |-> i, name |-> i]]
  /\ rounds = <<[id |-> 1, bankerId |-> 1, values |-> EmptyValues]>>
  /\ rendered = rounds
  /\ nextPid = DefaultPlayerCount + 1
  /\ nextRid = 2
  /\ isResetModalOpen = FALSE
  /\ last = Called("init", 0, 0)
  /\ stepsLeft = MaxBatchedSteps
  /\ SettleIdle

\* updateRoundValue(roundId, playerId, value) called from the closures of
\* the last render, with no re-render yet.
UpdateRoundValueFromSnapshot(rid, pid, value) ==
  /\ stepsLeft > 0
  /\ stepsLeft' = stepsLeft - 1
  /\ rounds' = AfterUpdateRoundValueFrom(rounds, rendered, rid, pid, value)
  /\ last' = Called("updateRoundValue", pid, rid)
  /\ UNCHANGED <<players, rendered, nextPid, nextRid, isResetModalOpen, settleVars>>

\* The re-render: the queued updaters have run, the closures are new.
Render ==
  /\ rendered # rounds
  /\ rendered' = rounds
  /\ last' = Called("render", 0, 0)
  /\ UNCHANGED <<players, rounds, nextPid, nextRid, isResetModalOpen, stepsLeft,
                 settleVars>>

NextBatched ==
  \/ \E rid \in RoundIds, pid \in Ids(players), value \in EditValues :
       UpdateRoundValueFromSnapshot(rid, pid, value)
  \/ Render

SpecBatched == InitBatched /\ [][NextBatched]_vars

\* ------------------------------------------- the minimizer, step by step

\* The finalSettlement memo run on a Balance mapping of its own: any amounts
\* over the keys 1..n in key order.  The App does not move.
InitSettle ==
  /\ players = <<>>
  /\ rounds = <<>>
  /\ rendered = <<>>
  /\ nextPid = 1
  /\ nextRid = 1
  /\ isResetModalOpen = FALSE
  /\ last = Called("init", 0, 0)
  /\ stepsLeft = 0
  /\ \E n \in 0..SettlePlayers :
       \E amounts \in [1..n -> (0 - MaxOwed)..MaxOwed] :
         balances = [i \in 1..n |-> [id |-> i, amount |-> amounts[i]]]
  /\ debtors = <<>>
  /\ creditors = <<>>
  /\ debtorIndex = 1
  /\ creditorIndex = 1
  /\ transactions = <<>>
  /\ pc = "begin"

\* const debtors = ...; const creditors = ...; const transactions = [];
\* let debtorIndex = 0; let creditorIndex = 0   (indices are 1-based here)
SettleBegin ==
  /\ pc = "begin"
  /\ debtors' = Debtors(balances)
  /\ creditors' = Creditors(balances)
  /\ debtorIndex' = 1
  /\ creditorIndex' = 1
  /\ transactions' = <<>>
  /\ pc' = "loop"
  /\ UNCHANGED <<balances, appVars>>

\* while (debtorIndex < debtors.length && creditorIndex < creditors.length)
LoopCondition == debtorIndex <= Len(debtors) /\ creditorIndex <= Len(creditors)

\* One iteration of the while loop.
SettleIteration ==
  /\ pc = "loop"
  /\ LoopCondition
  /\ LET debtor == debtors[debtorIndex]
         creditor == creditors[creditorIndex]
         amount == Min(debtor.amount, creditor.amount)
         d2 == IF amount > 0
               THEN [debtors EXCEPT ![debtorIndex].amount = Minus(@, amount)]
               ELSE debtors
         c2 == IF amount > 0
               THEN [creditors EXCEPT ![creditorIndex].amount = Minus(@, amount)]
               ELSE creditors
     IN /\ transactions' =
             IF amount > 0
             THEN Append(transactions,
                         [fromId |-> debtor.id, toId |-> creditor.id, amount |-> amount])
             ELSE transactions
        /\ debtors' = d2
        /\ creditors' = c2
        /\ debtorIndex' = IF d2[debtorIndex].amount = 0 THEN debtorIndex + 1
                          ELSE debtorIndex
        /\ creditorIndex' = IF c2[creditorIndex].amount = 0 THEN creditorIndex + 1
                            ELSE creditorIndex
  /\ UNCHANGED <<balances, pc, appVars>>

\* The loop is left: return transactions.sort((a, b) => b.amount - a.amount)
SettleReturn ==
  /\ pc = "loop"
  /\ ~LoopCondition
  /\ transactions' = SortDescending(transactions)
  /\ pc' = "done"
  /\ UNCHANGED <<balances, debtors, creditors, debtorIndex, creditorIndex, appVars>>

NextSettle == SettleBegin \/ SettleIteration \/ SettleReturn

SpecSettle == InitSettle /\ [][NextSettle]_vars

\* The amounts of a Balance mapping in which sums may have overflowed.
OverflowAmounts == {0 - Infinity, -1, 0, 1, Infinity}

\* The memo run on a Balance mapping whose sums may have overflowed: two
\* rounds in which a player's entry is near the top of the double range give
\* that player the Balance +Infinity and the banker -Infinity.
InitSettleOverflow ==
  /\ players = <<>>
  /\ rounds = <<>>
  /\ rendered = <<>>
  /\ nextPid = 1
  /\ nextRid = 1
  /\ isResetModalOpen = FALSE
  /\ last = Called("init", 0, 0)
  /\ stepsLeft = 0
  /\ \E n \in 0..OverflowPlayers :
       \E amounts \in [1..n -> OverflowAmounts] :
         balances = [i \in 1..n |-> [id |-> i, amount |-> amounts[i]]]
  /\ debtors = <<>>
  /\ creditors = <<>>
  /\ debtorIndex = 1
  /\ creditorIndex = 1
  /\ transactions = <<>>
  /\ pc = "begin"

SpecSettleOverflow == InitSettleOverflow /\ [][NextSettle]_vars

\* ------------------------------------------------------- claim vocabulary

\* A player's normalized value in a round, as the round table and the
\* exported history show it: finalValues[p.id] ?? 0.
NormalizedValue(ps, round, pid) ==
  LET fv == FinalValues(ps, round)
  IN IF pid \in DOMAIN fv THEN OrZero(fv[pid]) ELSE Num(0)

\* Sum of a round's normalized values over the roster (JS addition).
RowSum(ps, round) ==
  LET s[i \in 0..Len(ps)] ==
        IF i = 0 THEN Num(0) ELSE Add(s[i - 1], NormalizedValue(ps, round, ps[i].id))
  IN s[Len(ps)]

\* Sum of all Balances.
SumBalances(tot) ==
  LET s[i \in 0..Len(tot)] == IF i = 0 THEN 0 ELSE s[i - 1] + tot[i].amount
  IN s[Len(tot)]

\* A participant's entry with a missing or non-finite entry counted as 0.
EntryOrZero(round, pid) ==
  LET v == ValueOrZero(round.values, pid) IN IF IsFinite(v) THEN v.n ELSE 0

\* Sum over the roster players other than the banker of EntryOrZero.
SumOthersOrZero(ps, round) ==
  LET s[i \in 0..Len(ps)] ==
        IF i = 0 THEN 0
        ELSE IF ps[i].id # round.bankerId THEN s[i - 1] + EntryOrZero(round, ps[i].id)
             ELSE s[i - 1]
  IN s[Len(ps)]

\* The person summary's entry of a player.
SummaryOf(pid) ==
  CHOOSE e \in {settlementByPerson[i] : i \in 1..Len(settlementByPerson)} : e.personId = pid

\* ------------------------------------------------------------------ claims

\* C1: settlement closure.  In every reachable state, for every roster
\* player, the person summary's net (receive - pay over the settlement
\* transactions) equals the player's Balance.
C1_SettlementClosure ==
  \A i \in 1..Len(players) :
    SummaryOf(players[i].id).net = Balance(totals, players[i].id)

\* C2: balance conservation.  The Balances of the roster players sum to 0.
C2_BalanceConservation == SumBalances(totals) = 0

\* C3: zero-sum per round.  For every round with a banker set, the
\* normalized values of the roster players sum to exactly 0.
C3_ZeroSumPerRound ==
  \A j \in 1..Len(rounds) :
    rounds[j].bankerId # NoBanker => RowSum(players, rounds[j]) = Num(0)

\* C4: non-finite entries count as 0 for the banker.  For every round with
\* a banker set, what the round adds to the banker's Balance is the negated
\* sum of the other roster players' entries, a missing or non-finite entry
\* counting as 0.
C4_NonFiniteCountsAsZero ==
  \A j \in 1..Len(rounds) :
    rounds[j].bankerId # NoBanker =>
      RoundShare(players, rounds[j], rounds[j].bankerId)
        = 0 - SumOthersOrZero(players, rounds[j])

\* The ids uid() has handed out to players that are on no roster now: in a
\* run from a fresh start, exactly the players removePlayer has removed.
RemovedIds == (1..(nextPid - 1)) \ Ids(players)

\* The bankers of a round list.
Bankers(rs) == {rs[j].bankerId : j \in 1..Len(rs)}

\* C5 as claimed: removing player x changes what a round adds to a remaining
\* player's Balance only if x was that round's banker, and removing a player
\* who was never a banker leaves every remaining player's Balance unchanged.
C5_OnlyRemovedBankerRounds ==
  [][\A x \in Ids(players) :
       x \notin Ids(players') =>
         \A q \in Ids(players') :
           /\ \A j \in 1..Len(rounds) :
                rounds[j].bankerId # x =>
                  RoundShare(players', rounds'[j], q) = RoundShare(players, rounds[j], q)
           /\ x \notin Bankers(rounds) =>
                Balance(Totals(players', rounds'), q) = Balance(totals, q)]_vars

\* C5 as amended: removing player x changes what a round adds to a remaining
\* player q's Balance only if x or q was that round's banker, and removing a
\* player who was never a banker leaves unchanged the Balance of every
\* remaining player who was never a banker either.
C5_RemovalFrame ==
  [][\A x \in Ids(players) :
       x \notin Ids(players') =>
         \A q \in Ids(players') :
           /\ \A j \in 1..Len(rounds) :
                rounds[j].bankerId \notin {x, q} =>
                  RoundShare(players', rounds'[j], q) = RoundShare(players, rounds[j], q)
           /\ (x \notin Bankers(rounds) /\ q \notin Bankers(rounds)) =>
                Balance(Totals(players', rounds'), q) = Balance(totals, q)]_vars

\* Witness of C5: a player has just been removed, and a round whose banker
\* is still set holds a remaining participant's non-zero share.
C5_Witness ==
  /\ last.op = "removePlayer"
  /\ \E j \in 1..Len(rounds), q \in Ids(players) :
       /\ rounds[j].bankerId \notin {NoBanker, q}
       /\ RoundShare(players, rounds[j], q) # 0

\* C6: roster-removal cascade.  In every state, an id removePlayer has
\* removed is no Balance key, is no DebtItem's bankerId, fromId or toId, is
\* no settlement transaction's fromId or toId and is no person-summary entry.
C6_RemovalCascade ==
  \A x \in RemovedIds :
    /\ \A i \in 1..Len(totals) : totals[i].id # x
    /\ \A i \in 1..Len(debtsByRound) :
         x \notin {debtsByRound[i].bankerId, debtsByRound[i].fromId, debtsByRound[i].toId}
    /\ \A i \in 1..Len(finalSettlement) :
         x \notin {finalSettlement[i].fromId, finalSettlement[i].toId}
    /\ \A i \in 1..Len(settlementByPerson) : settlementByPerson[i].personId # x

\* Witness of C6: a player was removed in an earlier step, and the current
\* state has DebtItems and settlement transactions.
C6_Witness ==
  /\ RemovedIds # {}
  /\ last.op \notin {"init", "removePlayer"}
  /\ Len(debtsByRound) > 0
  /\ Len(finalSettlement) > 0

\* C7 as claimed: no round's values map has an entry keyed by the round's
\* current banker.
C7_NoEntryForBanker ==
  \A j \in 1..Len(rounds) : rounds[j].bankerId \notin DOMAIN rounds[j].values

\* C7 as amended: no step creates or changes an entry keyed by the round's
\* current banker; a round holds such an entry only as it was stored, with
\* the same value, before the step (a banker change leaves values as is).
C7_BankerEntryOnlyLeftOver ==
  [][\A j \in 1..Len(rounds') :
       rounds'[j].bankerId \in DOMAIN rounds'[j].values =>
         \E i \in 1..Len(rounds) :
           /\ rounds[i].id = rounds'[j].id
           /\ rounds'[j].bankerId \in DOMAIN rounds[i].values
           /\ rounds[i].values[rounds'[j].bankerId]
                = rounds'[j].values[rounds'[j].bankerId]]_vars

\* Witness of C7: a banker has just been selected for a round that holds an
\* entry keyed by that player.
C7_Witness ==
  /\ last.op = "selectBanker"
  /\ \E j \in 1..Len(rounds) :
       /\ rounds[j].id = last.rid
       /\ rounds[j].bankerId = last.pid
       /\ last.pid \in DOMAIN rounds[j].values

\* C8: a round whose bankerId is set but is no roster player's id adds
\* nothing to any player's Balance.
C8_UnknownBankerAddsNothing ==
  \A j \in 1..Len(rounds) :
    (rounds[j].bankerId # NoBanker /\ rounds[j].bankerId \notin Ids(players)) =>
      \A q \in Ids(players) : RoundShare(players, rounds[j], q) = 0

\* The rounds with a banker set, in list order.
BankedRounds(rs) == SelectSeq(rs, LAMBDA r : r.bankerId # NoBanker)

\* A round without a banker adds 0 to every roster player's Balance and no
\* DebtItem carries its index.
NoBankerNoEffect(ps, rs) ==
  LET debts == DebtsByRound(ps, rs)
      idle == {j \in 1..Len(rs) : rs[j].bankerId = NoBanker}
  IN /\ \A j \in idle, q \in Ids(ps) : RoundShare(ps, rs[j], q) = 0
     /\ \A i \in 1..Len(debts) : debts[i].roundIndex \notin idle

\* C9: a round without a banker adds 0 to every Balance and emits no
\* DebtItem, whatever its values; a step that only adds, edits or deletes
\* such rounds leaves all Balances and the settlement transactions unchanged.
C9_NoBankerRoundIsInert ==
  [][/\ NoBankerNoEffect(players, rounds)
     /\ NoBankerNoEffect(players', rounds')
     /\ (players' = players /\ BankedRounds(rounds') = BankedRounds(rounds)) =>
          LET after == Totals(players', rounds')
          IN /\ after = totals
             /\ FinalSettlement(after) = finalSettlement]_vars

\* Witness of C9: a value has just been entered in a round without a banker,
\* which holds a finite non-zero entry, while another round gives non-zero
\* Balances.
C9_Witness ==
  /\ last.op = "updateRoundValue"
  /\ \E j \in 1..Len(rounds) :
       /\ rounds[j].id = last.rid
       /\ rounds[j].bankerId = NoBanker
       /\ last.pid \in DOMAIN rounds[j].values
       /\ EntryOrZero(rounds[j], last.pid) # 0
  /\ Len(finalSettlement) > 0

\* What a player owes or is owed: the absolute value of the Balance.
Owed(tot, pid) == Abs(Balance(tot, pid))

\* What is left of a party's owed amount before the k-th generated
\* transaction.
Remaining(tot, txs, k, pid) ==
  Owed(tot, pid) - Pay(SubSeq(txs, 1, k - 1), pid) - Receive(SubSeq(txs, 1, k - 1), pid)

\* The generated transactions pair debtors and creditors in ascending order
\* of owed amount, each for the smaller of the two remainders.
AscendingPairing(tot) ==
  LET txs == Pairing(tot)
  IN /\ \A k \in 1..Len(txs) :
          txs[k].amount = Min(Remaining(tot, txs, k, txs[k].fromId),
                              Remaining(tot, txs, k, txs[k].toId))
     /\ \A k \in 1..(Len(txs) - 1) :
          /\ Owed(tot, txs[k].fromId) <= Owed(tot, txs[k + 1].fromId)
          /\ Owed(tot, txs[k].toId) <= Owed(tot, txs[k + 1].toId)
          \* a side is left only once it has reached 0
          /\ txs[k + 1].fromId # txs[k].fromId =>
               Remaining(tot, txs, k + 1, txs[k].fromId) = 0
          /\ txs[k + 1].toId # txs[k].toId =>
               Remaining(tot, txs, k + 1, txs[k].toId) = 0

\* The scenario of C10: roster A, B, C (ids 1, 2, 3) and one round with
\* banker A and values {B: 50, C: -20}.
ScenarioABC ==
  /\ Ids(players) = {1, 2, 3}
  /\ Len(players) = 3
  /\ Len(rounds) = 1
  /\ rounds[1].bankerId = 1
  /\ DOMAIN rounds[1].values = {2, 3}
  /\ rounds[1].values[2] = Num(50)
  /\ rounds[1].values[3] = Num(-20)

\* C10: the minimizer pairs debtors and creditors in ascending order of owed
\* amount, settling the smaller remainder per step and leaving a side once
\* it reaches 0; in the scenario the Balances are {A: -30, B: 50, C: -20}
\* and the final list is [A pays B 30, C pays B 20].
C10_AscendingPairingAndScenario ==
  /\ AscendingPairing(totals)
  /\ ScenarioABC =>
       /\ totals = <<[id |-> 1, amount |-> -30], [id |-> 2, amount |-> 50],
                     [id |-> 3, amount |-> -20]>>
       /\ finalSettlement = <<[fromId |-> 1, toId |-> 2, amount |-> 30],
                              [fromId |-> 3, toId |-> 2, amount |-> 20]>>

\* Witness of C10: the scenario's state.
C10_Witness == ScenarioABC /\ Len(Pairing(totals)) = 2

\* The number of keys of a Balance mapping with a negative amount, and with
\* a positive amount.
NegativeCount(tot) == Len(DebtorEntries(tot))

PositiveCount(tot) == Len(CreditorEntries(tot))

\* C11 as claimed: for every Balance mapping the minimizer returns at most
\* (players with negative balance) + (players with positive balance) - 1
\* transactions.
C11_AtMostDebtorsPlusCreditorsMinusOne ==
  pc = "done" =>
    Len(transactions) <= NegativeCount(balances) + PositiveCount(balances) - 1

\* C11 as amended: at every point of the minimizer's run the transaction
\* list has at most (negative balances) + (positive balances) - 1 entries
\* when some balance is non-zero, and is empty when no balance is non-zero.
C11_TransactionBound ==
  LET n == NegativeCount(balances) + PositiveCount(balances)
  IN Len(transactions) <= IF n = 0 THEN 0 ELSE n - 1

\* Witness of C11: the minimizer has returned for a mapping with two debtors
\* and two creditors, and the bound is met exactly.
C11_Witness ==
  /\ pc = "done"
  /\ NegativeCount(balances) = 2
  /\ PositiveCount(balances) = 2
  /\ Len(transactions) = 3

\* C12: every settlement transaction has an amount > 0, a payer whose
\* Balance is negative and a payee whose Balance is positive; so payer and
\* payee differ and no player both pays and receives.
C12_PayerOwesPayeeIsOwed ==
  /\ \A i \in 1..Len(transactions) :
       /\ transactions[i].amount > 0
       /\ Balance(balances, transactions[i].fromId) < 0
       /\ Balance(balances, transactions[i].toId) > 0
       /\ transactions[i].fromId # transactions[i].toId
  /\ \A i, j \in 1..Len(transactions) : transactions[i].fromId # transactions[j].toId

\* Witness of C12: the minimizer has returned transactions of two payers
\* and two payees.
C12_Witness ==
  /\ pc = "done"
  /\ Cardinality({transactions[i].fromId : i \in 1..Len(transactions)}) = 2
  /\ Cardinality({transactions[i].toId : i \in 1..Len(transactions)}) = 2

\* The keys of a Balance mapping whose amount is exactly 0.
ZeroKeys(tot) == {tot[i].id : i \in {k \in 1..Len(tot) : tot[k].amount = 0}}

\* C13: a player whose Balance is exactly 0 is neither payer nor payee of
\* any settlement transaction, and when every Balance is 0 the minimizer's
\* transaction list is empty.
C13_ZeroBalanceStaysOut ==
  /\ \A i \in 1..Len(transactions) :
       /\ transactions[i].fromId \notin ZeroKeys(balances)
       /\ transactions[i].toId \notin ZeroKeys(balances)
  /\ ZeroKeys(balances) = {balances[i].id : i \in 1..Len(balances)} =>
       transactions = <<>>

\* Witness of C13: the minimizer has returned a non-empty list for a
\* mapping in which the first and the last key have balance 0.
C13_Witness ==
  /\ pc = "done"
  /\ Len(balances) = SettlePlayers
  /\ {1, SettlePlayers} \subseteq ZeroKeys(balances)
  /\ Len(transactions) > 0

Participant(item) == IF item.fromId = item.bankerId THEN item.toId ELSE item.fromId

\* The positions in a DebtItem sequence of the items of round j and player p.
ItemsOf(debts, j, p) ==
  {i \in 1..Len(debts) : debts[i].roundIndex = j /\ Participant(debts[i]) = p}

\* C14: per-round debt expansion.  For each round with a banker set and
\* each roster player p other than the banker, with recorded value v: when v
\* is finite and non-zero exactly one DebtItem is emitted, of amount |v| > 0,
\* from the banker to p when v > 0 and from p to the banker when v < 0; when
\* v is 0, missing or non-finite none is emitted; and none is emitted for
\* the banker.
C14_DebtExpansion ==
  \A j \in 1..Len(rounds) :
    rounds[j].bankerId # NoBanker =>
      LET b == rounds[j].bankerId
      IN /\ \A p \in Ids(players) \ {b} :
              LET v == ValueOrZero(rounds[j].values, p)
                  its == ItemsOf(debtsByRound, j, p)
              IN IF IsFinite(v) /\ v.n # 0
                 THEN /\ Cardinality(its) = 1
                      /\ \A i \in its :
                           /\ debtsByRound[i].amount = Abs(v.n)
                           /\ debtsByRound[i].amount > 0
                           /\ debtsByRound[i].bankerId = b
                           /\ v.n > 0 => (debtsByRound[i].fromId = b /\ debtsByRound[i].toId = p)
                           /\ v.n < 0 => (debtsByRound[i].fromId = p /\ debtsByRound[i].toId = b)
                 ELSE its = {}
         /\ ItemsOf(debtsByRound, j, b) = {}
         /\ \A i \in 1..Len(debtsByRound) :
              debtsByRound[i].roundIndex = j =>
                Participant(debtsByRound[i]) \in Ids(players) \ {b}

\* Witness of C14: a round with a banker set holds a positive entry, which
\* gives the one DebtItem there is, and a non-finite entry, which gives none.
C14_Witness ==
  /\ Len(debtsByRound) = 1
  /\ \E j \in 1..Len(rounds), p, q \in Ids(players) :
       /\ rounds[j].bankerId \notin {NoBanker, p, q}
       /\ {p, q} \subseteq DOMAIN rounds[j].values
       /\ rounds[j].values[p] = Num(50)
       /\ rounds[j].values[q] = NonFinite

\* The position of a player in the roster.
RosterPosition(ps, pid) == CHOOSE i \in 1..Len(ps) : ps[i].id = pid

\* The DebtItems of a roster and a round list are in round order and,
\* within a round, in roster order, and each item's roundIndex is the
\* position in the round list of a round whose banker is the item's banker.
DebtsInOrder(ps, rs) ==
  LET debts == DebtsByRound(ps, rs)
  IN /\ \A i \in 1..Len(debts) :
          /\ debts[i].roundIndex \in 1..Len(rs)
          /\ rs[debts[i].roundIndex].bankerId = debts[i].bankerId
          /\ debts[i].bankerId # NoBanker
     /\ \A i \in 1..(Len(debts) - 1) :
          \/ debts[i].roundIndex < debts[i + 1].roundIndex
          \/ /\ debts[i].roundIndex = debts[i + 1].roundIndex
             /\ RosterPosition(ps, Participant(debts[i]))
                  < RosterPosition(ps, Participant(debts[i + 1]))

\* A DebtItem sequence after the round at position r has gone: that round's
\* items are dropped and every later round's items have roundIndex one less.
WithoutRoundAt(debts, r) ==
  LET kept == SelectSeq(debts, LAMBDA d : d.roundIndex # r)
  IN [i \in 1..Len(kept) |->
        IF kept[i].roundIndex > r
        THEN [kept[i] EXCEPT !.roundIndex = @ - 1]
        ELSE kept[i]]

\* C15: the DebtItem sequence is ordered by round position and, within a
\* round, by roster order; each item's roundIndex is the 1-based position of
\* its round in the current round list, rounds without a banker counted; so
\* deleting a round lowers the roundIndex of every later round's items by
\* one and changes no other item.
C15_DebtItemOrder ==
  [][/\ DebtsInOrder(players, rounds)
     /\ DebtsInOrder(players', rounds')
     /\ \A r \in 1..Len(rounds) :
          (players' = players /\ rounds' = SubSeq(rounds, 1, r - 1) \o
                                             SubSeq(rounds, r + 1, Len(rounds))) =>
            DebtsByRound(players', rounds') = WithoutRoundAt(debtsByRound, r)]_vars

\* Witness of C15: a round has just been deleted, and a round that was
\* created after it holds a DebtItem.
C15_Witness ==
  /\ last.op = "removeRound"
  /\ \E i \in 1..Len(debtsByRound) : rounds[debtsByRound[i].roundIndex].id > last.rid

\* A round list with every values entry keyed by an id off the roster
\* taken out.
WithoutStaleEntries(ps, rs) ==
  [j \in 1..Len(rs) |->
     [rs[j] EXCEPT !.values = [k \in DOMAIN rs[j].values \cap Ids(ps) |-> rs[j].values[k]]]]

\* The rounds that hold a finite non-zero entry keyed by an id off the roster.
StaleEntryRounds(ps, rs) ==
  {j \in 1..Len(rs) :
     \E k \in DOMAIN rs[j].values \ Ids(ps) :
       IsFinite(rs[j].values[k]) /\ rs[j].values[k].n # 0}

\* C17: the Balance mapping has exactly the current roster ids as keys, and
\* a values entry keyed by an id that is not on the roster changes no roster
\* player's Balance and produces no DebtItem.
C17_StaleEntriesIgnored ==
  /\ Len(totals) = Len(players)
  /\ \A i \in 1..Len(players) : totals[i].id = players[i].id
  /\ Totals(players, WithoutStaleEntries(players, rounds)) = totals
  /\ DebtsByRound(players, WithoutStaleEntries(players, rounds)) = debtsByRound
  /\ \A i \in 1..Len(debtsByRound) : Participant(debtsByRound[i]) \in Ids(players)

\* Witness of C17: a value has just been entered in a round with a roster
\* player as banker that also holds a finite non-zero entry keyed by an id
\* off the roster; the round gives non-zero Balances and a DebtItem.
C17_Witness ==
  /\ last.op = "updateRoundValue"
  /\ \E j \in StaleEntryRounds(players, rounds) :
       /\ rounds[j].id = last.rid
       /\ rounds[j].bankerId \in Ids(players)
  /\ Len(debtsByRound) > 0
  /\ \E i \in 1..Len(totals) : totals[i].amount # 0

\* C18: addRound appends exactly one round at the end of the round list,
\* with empty values and with the bankerId of the previously last round
\* (empty when the list was empty), and leaves every existing round
\* unchanged.
C18_AddRoundAppends ==
  [][last'.op = "addRound" =>
       /\ Len(rounds') = Len(rounds) + 1
       /\ SubSeq(rounds', 1, Len(rounds)) = rounds
       /\ DOMAIN rounds'[Len(rounds')].values = {}
       /\ rounds'[Len(rounds')].id \notin RoundIds
       /\ rounds'[Len(rounds')].bankerId =
            IF Len(rounds) = 0 THEN NoBanker ELSE rounds[Len(rounds)].bankerId]_vars

\* Witness of C18: a round has just been added after a round that has a
\* banker and a value, and has taken over its banker.
C18_Witness ==
  /\ last.op = "addRound"
  /\ Len(rounds) >= 2
  /\ rounds[Len(rounds)].id = last.rid
  /\ rounds[Len(rounds)].bankerId # NoBanker
  /\ DOMAIN rounds[Len(rounds) - 1].values # {}

\* C19: removeRound(id) removes exactly the round with that id; every other
\* round keeps its id, bankerId, values and its order relative to the other
\* remaining rounds.
C19_RemoveRoundFrame ==
  [][last'.op = "removeRound" =>
       \E r \in 1..Len(rounds) :
         /\ rounds[r].id = last'.rid
         /\ Len(rounds') = Len(rounds) - 1
         /\ \A j \in 1..(r - 1) : rounds'[j] = rounds[j]
         /\ \A j \in (r + 1)..Len(rounds) : rounds'[j - 1] = rounds[j]
         /\ \A j \in 1..Len(rounds') : rounds'[j].id # last'.rid]_vars

\* Witness of C19: a round has just been removed from between two rounds
\* that remain.
C19_Witness ==
  /\ last.op = "removeRound"
  /\ \E j \in 1..(Len(rounds) - 1) :
       rounds[j].id < last.rid /\ last.rid < rounds[j + 1].id

\* The round list in the order f, a permutation of its positions.
Permuted(rs, f) == [i \in 1..Len(rs) |-> rs[f[i]]]

Settles(payments, tot) ==
  \A i \in 1..Len(tot) :
    Receive(payments, tot[i].id) - Pay(payments, tot[i].id) = tot[i].amount

\* A zero-sum mapping over five keys: debts of 1, 2, 2 and credits of 2, 3.
NonOptimalMapping ==
  <<[id |-> 1, amount |-> -1], [id |-> 2, amount |-> -2], [id |-> 3, amount |-> -2],
    [id |-> 4, amount |-> 2], [id |-> 5, amount |-> 3]>>

\* Three payments that zero every balance of NonOptimalMapping.
ThreePayments ==
  <<[fromId |-> 2, toId |-> 4, amount |-> 2], [fromId |-> 1, toId |-> 5, amount |-> 1],
    [fromId |-> 3, toId |-> 5, amount |-> 2]>>

\* C21: the greedy minimizer is not always optimal.  For the zero-sum
\* mapping with debts 1, 2, 2 and credits 2, 3 it returns four transactions,
\* which zero every balance, while three payments zero every balance too.
C21_GreedyNotOptimal ==
  (pc = "done" /\ balances = NonOptimalMapping) =>
    /\ SumBalances(balances) = 0
    /\ Len(transactions) = 4
    /\ Settles(transactions, balances)
    /\ Settles(ThreePayments, balances)
    /\ Len(ThreePayments) < Len(transactions)

\* Witness of C21: the minimizer has returned for that mapping.
C21_Witness ==
  /\ pc = "done"
  /\ balances = NonOptimalMapping
  /\ Len(transactions) > 3

\* The amount the next iteration of the loop settles.
NextAmount == Min(debtors[debtorIndex].amount, creditors[creditorIndex].amount)

\* C22: the settlement loop terminates for every Balance mapping: whenever
\* the loop is to run another iteration, that iteration emits a transaction
\* of positive amount and advances the debtor index or the creditor index,
\* so the loop ends once one list is exhausted.
C22_EveryIterationAdvances ==
  (pc = "loop" /\ LoopCondition) =>
    /\ NextAmount > 0
    /\ \/ Minus(debtors[debtorIndex].amount, NextAmount) = 0
       \/ Minus(creditors[creditorIndex].amount, NextAmount) = 0

\* The number of times x occurs in a sequence.
Occurrences(seq, x) == Cardinality({i \in 1..Len(seq) : seq[i] = x})

\* One sequence is a permutation of another.
IsPermutation(a, b) ==
  /\ Len(a) = Len(b)
  /\ \A i \in 1..Len(a) : Occurrences(a, a[i]) = Occurrences(b, a[i])

\* C23: the transaction list the minimizer returns is sorted in
\* non-increasing order of amount and is a permutation of the transactions
\* the greedy pairing generated.
C23_ReturnedListSorted ==
  [][pc' = "done" =>
       /\ \A i \in 1..(Len(transactions') - 1) :
            transactions'[i].amount >= transactions'[i + 1].amount
       /\ IsPermutation(transactions', transactions)
       /\ transactions = Pairing(balances)]_vars

\* Witness of C23: the minimizer has returned a list of three transactions
\* whose order is not the order the pairing generated them in.
C23_Witness ==
  /\ pc = "done"
  /\ Len(transactions) = 3
  /\ transactions # Pairing(balances)

\* C24: in every state reachable by handler calls, each round's bankerId is
\* either empty or the id of a player currently on the roster.
C24_BankerOnRosterOrEmpty ==
  \A j \in 1..Len(rounds) : rounds[j].bankerId \in Ids(players) \cup {NoBanker}

\* Witness of C24: a player has just been removed; the first round has no
\* banker and a later round still has one.
C24_Witness ==
  /\ last.op = "removePlayer"
  /\ Len(rounds) >= 2
  /\ rounds[1].bankerId = NoBanker
  /\ rounds[2].bankerId # NoBanker

\* What the DebtItems give a player: the amounts where the player is toId
\* less the amounts where the player is fromId.
DebtNet(debts, pid) == Receive(debts, pid) - Pay(debts, pid)

\* C25: the per-round DebtItems restate the Balances: for every roster
\* player, the sum of the DebtItem amounts where the player is toId minus the
\* sum where the player is fromId equals the player's Balance.
C25_DebtItemsRestateBalances ==
  \A i \in 1..Len(players) :
    DebtNet(debtsByRound, players[i].id) = Balance(totals, players[i].id)

\* No entry of a round list is null.
NoNullStored(rs) ==
  \A j \in 1..Len(rs) : \A k \in DOMAIN rs[j].values : rs[j].values[k] # Null

\* The frame of a value edit of player pid in the round at position j: the
\* round keeps its id and bankerId, gains at most the key pid and keeps
\* every other entry, and every other round is as it was.
OnlyEntryChanged(before, after, j, pid) ==
  /\ Len(after) = Len(before)
  /\ \A i \in 1..Len(before) : i # j => after[i] = before[i]
  /\ after[j].id = before[j].id
  /\ after[j].bankerId = before[j].bankerId
  /\ DOMAIN after[j].values = DOMAIN before[j].values \cup {pid}
  /\ \A k \in DOMAIN before[j].values \ {pid} : after[j].values[k] = before[j].values[k]

\* C26: updateRoundValue(roundId, playerId, value) changes nothing when the
\* round does not exist or playerId is the round's current banker;
\* otherwise it sets only that round's values[playerId], null stored as 0,
\* and leaves the round's bankerId, its other entries, every other round and
\* the roster unchanged.
C26_UpdateRoundValueFrame ==
  [][last'.op = "updateRoundValue" =>
          /\ \A value \in EditValues :
               AfterUpdateRoundValue(rounds, nextRid, last'.pid, value) = rounds
          /\ AfterUpdateRoundValue(rounds, last'.rid, last'.pid, Null)
               = AfterUpdateRoundValue(rounds, last'.rid, last'.pid, Num(0))
          /\ NoNullStored(rounds')
          /\ players' = players
          /\ \E j \in 1..Len(rounds) :
               /\ rounds[j].id = last'.rid
               /\ IF last'.pid = rounds[j].bankerId
                  THEN rounds' = rounds
                  ELSE OnlyEntryChanged(rounds, rounds', j, last'.pid)]_vars

\* Witness of C26: null has just been entered for a player in a round that
\* has another player as banker and holds a third player's non-zero entry.
C26_Witness ==
  /\ last.op = "updateRoundValue"
  /\ \E j \in 1..Len(rounds) :
       /\ rounds[j].id = last.rid
       /\ rounds[j].bankerId \notin {NoBanker, last.pid}
       /\ last.pid \in DOMAIN rounds[j].values
       /\ rounds[j].values[last.pid] = Num(0)
       /\ \E k \in DOMAIN rounds[j].values \ {last.pid} : rounds[j].values[k] # Num(0)

\* C27: two value edits to the same round for two different non-banker
\* players, both issued from the same snapshot of the round list, are both
\* retained: after the second, the round holds the entry the first one set
\* and an entry for the second one's player.
C27_BothEditsRetained ==
  [][(/\ last.op = "updateRoundValue"
      /\ last'.op = "updateRoundValue"
      /\ last'.rid = last.rid
      /\ last'.pid # last.pid
      /\ rendered' = rendered
      /\ FindRound(rendered, last.rid).bankerId \notin {last.pid, last'.pid}) =>
        LET before == FindRound(rounds, last.rid).values
            after == FindRound(rounds', last.rid).values
        IN /\ last'.pid \in DOMAIN after
           /\ last.pid \in DOMAIN after
           /\ after[last.pid] = before[last.pid]]_vars

\* C28: addPlayer appends one player, whose Balance is 0, and leaves every
\* existing player's Balance, the DebtItems and the settlement transactions
\* as they were.
C28_AddPlayerFrame ==
  [][last'.op = "addPlayer" =>
       LET after == Totals(players', rounds')
           added == players'[Len(players')].id
       IN /\ Len(players') = Len(players) + 1
          /\ SubSeq(players', 1, Len(players)) = players
          /\ added \notin Ids(players)
          /\ Balance(after, added) = 0
          /\ SubSeq(after, 1, Len(players)) = totals
          /\ DebtsByRound(players', rounds') = debtsByRound
          /\ SettlementOf(players', rounds') = finalSettlement]_vars

\* addPlayer has been called while there were DebtItems and settlement
\* transactions.
C28_Witness ==
  /\ last.op = "addPlayer"
  /\ debtsByRound # <<>>
  /\ finalSettlement # <<>>
  /\ Balance(totals, last.pid) = 0

\* The step is a reset: the first screen's resetGame, the second screen's
\* resetGame with no round, or the Modal's onOk.
IsReset ==
  \/ last'.op \in {"resetGameDirect", "modalOk"}
  \/ last'.op = "resetGame" /\ Len(rounds) = 0

\* C29: a reset keeps the roster and empties the round list, after which
\* every Balance is 0 and there are no DebtItems and no settlement
\* transactions; the second screen's resetGame called with at least one round
\* changes neither rounds nor roster and opens the Modal; while the Modal is
\* open only its onOk changes them; onCancel leaves both unchanged.
C29_ResetAndConfirmation ==
  [][/\ IsReset =>
          /\ players' = players
          /\ rounds' = <<>>
          /\ \A pid \in Ids(players') : Balance(Totals(players', rounds'), pid) = 0
          /\ DebtsByRound(players', rounds') = <<>>
          /\ SettlementOf(players', rounds') = <<>>
     /\ (last'.op = "resetGame" /\ Len(rounds) >= 1) =>
          /\ players' = players
          /\ rounds' = rounds
          /\ isResetModalOpen'
     /\ (isResetModalOpen /\ last'.op # "modalOk") =>
          /\ players' = players
          /\ rounds' = rounds
     /\ last'.op = "modalCancel" =>
          /\ players' = players
          /\ rounds' = rounds
          /\ ~isResetModalOpen']_vars

\* The reset of the second screen has been confirmed: the Modal, which
\* resetGame opens only when there is a round, is closed and the rounds are
\* gone.
C29_Witness ==
  /\ last.op = "modalOk"
  /\ ~isResetModalOpen
  /\ rounds = <<>>
  /\ Len(players) >= 1

\* C30: each row of the exported round history carries one value per roster
\* player, the player's normalized value for that round, also when two
\* roster players have the same name.
C30_HistoryRowPerPlayer ==
  LET historyData == HistoryData(players, rounds)
  IN \A j \in 1..Len(rounds) :
       /\ Cardinality(DOMAIN historyData[j]) = Len(players)
       /\ \A i \in 1..Len(players) :
            historyData[j][players[i].name]
              = ValueOrZero(FinalValues(players, rounds[j]), players[i].id)

====
